---- MODULE Spec2Model ----
(***************************************************************************)
(* The materialized result cache ("backlog") of                            *)
(* noria-server/dataflow/src/backlog/mod.rs: a WriteHandle that stages     *)
(* record deltas and publishes them with swap, and a SingleReadHandle that *)
(* reads the published side with try_find_and.                             *)
(*                                                                         *)
(* The backing map (modules multiw_sr / multir_sr and the srmap crate) is  *)
(* not part of the sources at hand; it is modelled from sections 4.2 and   *)
(* 4.3 of the specification: a published side read by every handle, and a  *)
(* log of staged operations per write handle that refresh applies in one   *)
(* step.                                                                   *)
(***************************************************************************)
EXTENDS Integers, Sequences, FiniteSets, TLC

\* ------------------------------------------------------------------ bounds

\* Most operations a write handle stages between two swaps.
MaxPending == 2
\* Most records the model lets the map hold (Positive deltas beyond are not issued).
MaxRecords == 2
\* Largest mem_size the model lets an add reach.
MaxMem == 4
\* Most (reader, writer) pairs the model lets the clones make of one table.
MaxHandles == 3
\* Most users of the table under SpecMU.
MaxUsers == 2
\* Most records, staged and published, of all users together under SpecMU.
MaxShared == 3
\* Most records, staged and published, under SpecClone.
MaxCloneRecords == 1
\* Most calls of the replay callback the model follows.
MaxTriggered == 1

\* ------------------------------------------------------- program constants

\* the meta value the allocator constructs the map with
Meta == -1

\* key: &[usize] of the tests' tables, column indices counted from 0
KeyCols == <<0>>

\* The records of the model: [k, v], keyed by column 0.
Records == {<<1, "a">>, <<1, "b">>, <<2, "c">>}

\* the records the users of tests::srmap_works add: a and b
UserRecords == {<<1, "a">>, <<1, "b">>}

\* the record a replay lands under SpecRead
ReplayRecords == {<<1, "a">>}

\* rng.gen() in evict_random_key, as far as the modulo of the backend sees it
RngVals == {0, 1}

\* ----------------------------------------------------------------- helpers

\* deep_size_of of a record (common::SizeOf for Vec<DataType>): positive,
\* and different for different payloads
DeepSizeOf(r) == IF r[2] = "b" THEN 2 ELSE 1

\* key_from_record, borrowed-record path: point-select the key columns
key_from_record(key, record) == [i \in 1..Len(key) |-> record[key[i] + 1]]

KeySet == {key_from_record(KeyCols, r) : r \in Records}

\* the keys in the order of the map's buckets
KeyOrder == <<<<1>>, <<2>>>>

\* Record::Positive(r) / Record::Negative(r)
Positive(r) == [sign |-> "Positive", rec |-> r]
Negative(r) == [sign |-> "Negative", rec |-> r]
Deltas == {Positive(r) : r \in Records} \cup {Negative(r) : r \in Records}

\* the batches (rs) an add call is given: one delta, a record and its
\* retraction in either order, or two Positive records
Batches ==
    {<<d>> : d \in Deltas}
    \cup {<<Positive(r), Negative(r)>> : r \in Records}
    \cup {<<Negative(r), Positive(r)>> : r \in Records}
    \cup {<<Positive(r1), Positive(r2)>> : r1 \in Records, r2 \in Records}

RECURSIVE SumSizes(_)
SumSizes(rs) == IF rs = <<>> THEN 0 ELSE DeepSizeOf(Head(rs)) + SumSizes(Tail(rs))

RECURSIVE RemoveFirst(_, _)
RemoveFirst(s, x) ==
    IF s = <<>> THEN <<>>
    ELSE IF Head(s) = x THEN Tail(s)
    ELSE <<Head(s)>> \o RemoveFirst(Tail(s), x)

InSeq(s, x) == \E i \in 1..Len(s) : s[i] = x

\* ------------------------------------------------------------ backing map

\* An entry of the map: absent, or a bag of records each tagged with the uid
\* of the write handle that added it.
NoEntry == [present |-> FALSE, rs |-> <<>>]
Entry(rs) == [present |-> TRUE, rs |-> rs]

\* staged operations
OpAdd(r, u) == [op |-> "add", key |-> key_from_record(KeyCols, r), rec |-> r, uid |-> u]
OpRemove(r, u) == [op |-> "remove", key |-> key_from_record(KeyCols, r), rec |-> r, uid |-> u]
OpClear(k) == [op |-> "clear", key |-> k]
OpEmpty(k) == [op |-> "empty", key |-> k]

\* one staged operation applied to a side of the map
ApplyOp(o, m) ==
    LET e == m[o.key] IN
    CASE o.op = "add" ->
            [m EXCEPT ![o.key] = Entry(Append(e.rs, [rec |-> o.rec, uid |-> o.uid]))]
      [] o.op = "remove" ->
            [m EXCEPT ![o.key] =
                IF e.present THEN Entry(RemoveFirst(e.rs, [rec |-> o.rec, uid |-> o.uid]))
                ELSE e]
      [] o.op = "clear" -> [m EXCEPT ![o.key] = Entry(<<>>)]
      [] o.op = "empty" -> [m EXCEPT ![o.key] = NoEntry]

RECURSIVE Apply(_, _)
Apply(log, m) == IF log = <<>> THEN m ELSE Apply(Tail(log), ApplyOp(Head(log), m))

RECURSIVE Visible(_, _)
\* the records of a bag that carry uid u
Visible(rs, u) ==
    IF rs = <<>> THEN <<>>
    ELSE IF Head(rs).uid = u THEN <<Head(rs).rec>> \o Visible(Tail(rs), u)
    ELSE Visible(Tail(rs), u)

VARIABLES
    rmap,      \* published side of the backing map: KeySet -> entry
    ready,     \* the published side has been initialised by a refresh
    oplog,     \* per write handle: operations staged since its last refresh
    wh,        \* the WriteHandles: id -> [srmap, partial, mem_size, uid]
    rh,        \* the SingleReadHandles: id -> [srmap, trigger, uid]
    panicked,  \* "none", or the panic that ended the writer thread
    last,      \* history: the call made last, [op, key]
    calls,     \* history: the calls staged since the last swap; right after a
               \* swap, the calls that swap published
    swapped,   \* history: WriteHandle::swap has been called
    written,   \* history: keys an add or a successful mark_filled has named
    only_adds, \* history: the writers have called nothing but add, swap and the clones
    expect,    \* history, while only_adds: per write handle, the multiset of
               \* records the deltas issued through it leave
    cloned,    \* history: what the last clone_new_user(_partial) returned
    triggered, \* the calls the replay callback has received: [key, id]
    router,    \* the ReadHandle built over the read handles: [shape, slots]
    pc,        \* the two threads of the busy test: [i, writer, j, reader, res]
    fill,      \* history of the fills: per key, the Positive records published
               \* since a mark_filled of the key was published, NotFilled if
               \* there was none or the key has been emptied since
    extracted, \* the last call of key_from_record: [key, record, owned, out]
    actor,     \* the write handle that made the last call on a pair of handles
    given      \* the id argument of the last add

vars == <<rmap, ready, oplog, wh, rh, panicked, last, calls, swapped, written, only_adds, expect,
          cloned, triggered, router, pc, fill, extracted, actor, given>>

\* what the handle's staged operations make of the published side
View(h) == Apply(oplog[h], rmap)

\* meta_get_and(key, then) of the backing map, read side (also what a write
\* handle gets): None until the first refresh, else (then(records) | None, meta)
meta_get_and(u, k) ==
    IF ~ready THEN [some |-> FALSE]
    ELSE IF ~rmap[k].present THEN [some |-> TRUE, found |-> FALSE, rs |-> <<>>, meta |-> Meta]
    ELSE [some |-> TRUE, found |-> TRUE, rs |-> Visible(rmap[k].rs, u), meta |-> Meta]

\* is_empty() of the backing map
is_empty == \A k \in KeySet : ~rmap[k].present

\* the keys that have an entry on the published side, in bucket order
PresentKeys == SelectSeq(KeyOrder, LAMBDA k : rmap[k].present)

\* empty_at_index(rand): the key evicted, the index taken modulo the entries
empty_at_index(rand) == PresentKeys[(rand % Len(PresentKeys)) + 1]

Err == [tag |-> "Err"]
OkNone(m) == [tag |-> "None", meta |-> m]
OkSome(rs, m) == [tag |-> "Some", rs |-> rs, meta |-> m]

\* try_find_and that answers with the reader's uid where the map's meta belongs
try_find_and_uid_meta(h, k) ==
    LET g == meta_get_and(rh[h].uid, k) IN
    IF ~g.some THEN Err
    ELSE IF ~g.found /\ ~rh[h].trigger THEN OkSome(<<>>, rh[h].uid)
    ELSE IF ~g.found THEN OkNone(rh[h].uid)
    ELSE OkSome(g.rs, rh[h].uid)

\* try_find_and that takes an uninitialised map for a missing key
try_find_and_unready(h, k) ==
    LET g == meta_get_and(rh[h].uid, k) IN
    IF ~g.some THEN (IF rh[h].trigger THEN OkNone(Meta) ELSE OkSome(<<>>, Meta))
    ELSE IF ~g.found /\ ~rh[h].trigger THEN OkSome(<<>>, g.meta)
    ELSE IF ~g.found THEN OkNone(g.meta)
    ELSE OkSome(g.rs, g.meta)

\* try_find_and without the rule for fully materialized views
try_find_and_no_default(h, k) ==
    LET g == meta_get_and(rh[h].uid, k) IN
    IF ~g.some THEN Err
    ELSE IF ~g.found THEN OkNone(g.meta)
    ELSE OkSome(g.rs, g.meta)

\* try_find_and with the trigger test the wrong way round
try_find_and_flipped(h, k) ==
    LET g == meta_get_and(rh[h].uid, k) IN
    IF ~g.some THEN Err
    ELSE IF ~g.found /\ rh[h].trigger THEN OkSome(<<>>, g.meta)
    ELSE IF ~g.found THEN OkNone(g.meta)
    ELSE OkSome(g.rs, g.meta)

\* SingleReadHandle::try_find_and(key, then) with then = identity
try_find_and(h, k) ==
    LET g == meta_get_and(rh[h].uid, k) IN
    IF ~g.some THEN Err
    ELSE IF ~g.found /\ ~rh[h].trigger THEN OkSome(<<>>, g.meta)
    ELSE IF ~g.found THEN OkNone(g.meta)
    ELSE OkSome(g.rs, g.meta)

\* Option<usize>: None and Some(u)
IdNone == <<>>
IdSome(u) == <<u>>

NoKey == <<>>
Call(op, k) == [op |-> op, key |-> k]
NoRecords == [r \in Records |-> 0]
\* the call that allocated the table, with the srmap argument it was given
NewCall(srmap_arg) == [op |-> "new", key |-> NoKey, srmap |-> srmap_arg]
\* no clone has been asked for yet
NotCloned == [called |-> FALSE]

\* the multiset a batch of deltas leaves of multiset e: a Positive adds one
\* occurrence, a Negative takes one away if there is one
RECURSIVE FoldDeltas(_, _)
FoldDeltas(rs, e) ==
    IF rs = <<>> THEN e
    ELSE LET d == Head(rs) IN
         FoldDeltas(Tail(rs),
                    IF d.sign = "Positive" THEN [e EXCEPT ![d.rec] = @ + 1]
                    ELSE IF e[d.rec] > 0 THEN [e EXCEPT ![d.rec] = @ - 1]
                    ELSE e)

\* no ReadHandle has been built yet
NoRouter == [shape |-> "none", slots |-> <<>>]
\* ReadHandle::Singleton(slot) and ReadHandle::Sharded(slots)
Singleton(slot) == [shape |-> "Singleton", slots |-> <<slot>>]
Sharded(slots) == [shape |-> "Sharded", slots |-> slots]

\* the reader of the busy test has not called try_find_and yet
NoResult == [tag |-> "none"]

\* the busy test before its threads start: both are at the head of their for
\* loop, i and j count the turns from 1
BusyStart == [i |-> 1, writer |-> "for", j |-> 1, reader |-> "for", res |-> NoResult]

\* no mark_filled of the key has been published
NotFilled == -1

\* key_from_record has not been called
NotExtracted == [called |-> FALSE]

\* new / new_partial -> new_inner: the srmap argument is overwritten with true
Init ==
    \E srmap_arg \in BOOLEAN, trigger \in BOOLEAN, uid \in {0} :
        LET srmap == TRUE IN
        /\ rmap = [k \in KeySet |-> NoEntry]
        /\ ready = FALSE
        /\ oplog = (0 :> <<>>)
        /\ wh = (0 :> [srmap |-> srmap, partial |-> trigger, mem_size |-> 0, uid |-> uid])
        /\ rh = (0 :> [srmap |-> srmap, trigger |-> trigger, uid |-> uid])
        /\ panicked = "none"
        /\ last = NewCall(srmap_arg)
        /\ calls = <<>>
        /\ swapped = FALSE
        /\ written = {}
        /\ only_adds = TRUE
        /\ expect = (0 :> NoRecords)
        /\ cloned = NotCloned
        /\ triggered = <<>>
        /\ router = NoRouter
        /\ pc = BusyStart
        /\ fill = [k \in KeySet |-> NotFilled]
        /\ extracted = NotExtracted
        /\ actor = 0
        /\ given = IdNone

\* add of the backing map: stage each delta, return the signed memory delta
RECURSIVE backend_add(_, _, _, _)
backend_add(rs, u, log, delta) ==
    IF rs = <<>> THEN [log |-> log, delta |-> delta]
    ELSE
        LET d == Head(rs)
            k == key_from_record(KeyCols, d.rec)
            cur == Apply(log, rmap)[k]
            hit == cur.present /\ InSeq(cur.rs, [rec |-> d.rec, uid |-> u])
        IN
        IF d.sign = "Positive"
        THEN backend_add(Tail(rs), u, Append(log, OpAdd(d.rec, u)), delta + DeepSizeOf(d.rec))
        ELSE backend_add(Tail(rs), u, Append(log, OpRemove(d.rec, u)),
                         IF hit THEN delta - DeepSizeOf(d.rec) ELSE delta)

\* the number of records a side of the map holds
RECURSIVE CountRecords(_, _)
CountRecords(m, ks) ==
    IF ks = <<>> THEN 0 ELSE Len(m[Head(ks)].rs) + CountRecords(m, Tail(ks))

\* the number of records of uid u a side of the map holds
RECURSIVE CountVisible(_, _, _)
CountVisible(m, ks, u) ==
    IF ks = <<>> THEN 0 ELSE Len(Visible(m[Head(ks)].rs, u)) + CountVisible(m, Tail(ks), u)

\* the model keeps the records of each user within MaxRecords
FitsBag(h, rs) ==
    CountVisible(View(h), KeyOrder, wh[h].uid)
        + Len(SelectSeq(rs, LAMBDA d : d.sign = "Positive")) <= MaxRecords

BatchKeys(rs) == {key_from_record(KeyCols, rs[i].rec) : i \in 1..Len(rs)}

\* the calls staged and not yet published
Round == IF last.op = "swap" THEN <<>> ELSE calls

\* one staged call per Positive delta of a batch
RECURSIVE PositiveCalls(_)
PositiveCalls(rs) ==
    IF rs = <<>> THEN <<>>
    ELSE IF Head(rs).sign = "Positive"
         THEN <<Call("add", key_from_record(KeyCols, Head(rs).rec))>> \o PositiveCalls(Tail(rs))
         ELSE PositiveCalls(Tail(rs))

\* what an add call leaves of the history variables
AddHist(h, rs) ==
    /\ last' = Call("add", NoKey)
    /\ calls' = Round \o PositiveCalls(rs)
    /\ written' = written \cup BatchKeys(rs)
    /\ expect' = IF only_adds THEN [expect EXCEPT ![h] = FoldDeltas(rs, @)] ELSE expect
    /\ UNCHANGED <<swapped, only_adds, cloned, triggered>>

\* what a call on one key, other than add and swap, leaves of the history
\* variables but last
KeyRound(op, k, staged) ==
    /\ calls' = IF staged THEN Append(Round, Call(op, k)) ELSE Round
    /\ only_adds' = FALSE
    /\ expect' = [w \in DOMAIN expect |-> NoRecords]
    /\ UNCHANGED <<swapped, cloned, triggered>>

\* what a call on one key, other than add and swap, leaves of them
KeyHist(op, k, staged) ==
    /\ last' = Call(op, k)
    /\ KeyRound(op, k, staged)

\* what a call returned: nothing when it panicked
Aborted == <<>>
Returned(v) == <<v>>

\* the call evict_random_key that took key k, with what it returned
EvictCall(k, ret) == [op |-> "evict", key |-> k, ret |-> ret]

\* what evict_random_key leaves of the history variables
EvictHist(k, staged, ret) ==
    /\ last' = EvictCall(k, ret)
    /\ KeyRound("evict", k, staged)

\* add that publishes what it stages
add_eager(h, rs, id) ==
    /\ panicked = "none"
    /\ Len(oplog[h]) + Len(rs) <= MaxPending
    /\ FitsBag(h, rs)
    /\ LET res == backend_add(rs, wh[h].uid, oplog[h], 0) IN
       /\ wh[h].mem_size + res.delta \in 0..MaxMem
       /\ rmap' = Apply(res.log, rmap)
       /\ oplog' = [oplog EXCEPT ![h] = <<>>]
       /\ wh' = [wh EXCEPT ![h].mem_size = @ + res.delta]
    /\ AddHist(h, rs)
    /\ UNCHANGED <<ready, rh, panicked>>

\* add that passes on the Positive deltas only
add_positive_only(h, rs, id) ==
    /\ panicked = "none"
    /\ Len(oplog[h]) + Len(rs) <= MaxPending
    /\ FitsBag(h, rs)
    /\ LET res == backend_add(SelectSeq(rs, LAMBDA d : d.sign = "Positive"),
                              wh[h].uid, oplog[h], 0)
       IN
       /\ wh[h].mem_size + res.delta <= MaxMem
       /\ oplog' = [oplog EXCEPT ![h] = res.log]
       /\ wh' = [wh EXCEPT ![h].mem_size = @ + res.delta]
    /\ AddHist(h, rs)
    /\ UNCHANGED <<rmap, ready, rh, panicked>>

\* add that tags the records with the uid of the first user
add_first_uid(h, rs, id) ==
    /\ panicked = "none"
    /\ Len(oplog[h]) + Len(rs) <= MaxPending
    /\ FitsBag(h, rs)
    /\ LET res == backend_add(rs, wh[0].uid, oplog[h], 0) IN
       /\ wh[h].mem_size + res.delta \in 0..MaxMem
       /\ oplog' = [oplog EXCEPT ![h] = res.log]
       /\ wh' = [wh EXCEPT ![h].mem_size = @ + res.delta]
    /\ AddHist(h, rs)
    /\ UNCHANGED <<rmap, ready, rh, panicked>>

\* add that keeps mem_size at zero where the subtraction would go below it
add_saturating(h, rs, id) ==
    /\ panicked = "none"
    /\ Len(oplog[h]) + Len(rs) <= MaxPending
    /\ FitsBag(h, rs)
    /\ LET res == backend_add(rs, wh[h].uid, oplog[h], 0) IN
       /\ wh[h].mem_size + res.delta <= MaxMem
       /\ oplog' = [oplog EXCEPT ![h] = res.log]
       /\ wh' = [wh EXCEPT ![h].mem_size = IF @ + res.delta < 0 THEN 0 ELSE @ + res.delta]
    /\ AddHist(h, rs)
    /\ UNCHANGED <<rmap, ready, rh, panicked>>

\* add that stages the first delta of a batch and loses the rest
add_first_delta(h, rs, id) ==
    /\ panicked = "none"
    /\ Len(oplog[h]) + Len(rs) <= MaxPending
    /\ FitsBag(h, rs)
    /\ LET res == backend_add(SubSeq(rs, 1, 1), wh[h].uid, oplog[h], 0) IN
       /\ wh[h].mem_size + res.delta \in 0..MaxMem
       /\ oplog' = [oplog EXCEPT ![h] = res.log]
       /\ wh' = [wh EXCEPT ![h].mem_size = @ + res.delta]
    /\ AddHist(h, rs)
    /\ UNCHANGED <<rmap, ready, rh, panicked>>

\* add that hands the batch to the map last delta first
add_reversed(h, rs, id) ==
    /\ panicked = "none"
    /\ Len(oplog[h]) + Len(rs) <= MaxPending
    /\ FitsBag(h, rs)
    /\ LET sr == [i \in 1..Len(rs) |-> rs[Len(rs) + 1 - i]]
           res == backend_add(sr, wh[h].uid, oplog[h], 0)
       IN
       /\ wh[h].mem_size + res.delta \in 0..MaxMem
       /\ oplog' = [oplog EXCEPT ![h] = res.log]
       /\ wh' = [wh EXCEPT ![h].mem_size = @ + res.delta]
    /\ AddHist(h, rs)
    /\ UNCHANGED <<rmap, ready, rh, panicked>>

\* add that tags the records with the id it is given, when it is given one
add_given_id(h, rs, id) ==
    /\ panicked = "none"
    /\ Len(oplog[h]) + Len(rs) <= MaxPending
    /\ FitsBag(h, rs)
    /\ LET res == backend_add(rs, IF id = <<>> THEN wh[h].uid ELSE id[1], oplog[h], 0) IN
       /\ wh[h].mem_size + res.delta \in 0..MaxMem
       /\ oplog' = [oplog EXCEPT ![h] = res.log]
       /\ wh' = [wh EXCEPT ![h].mem_size = @ + res.delta]
    /\ AddHist(h, rs)
    /\ UNCHANGED <<rmap, ready, rh, panicked>>

\* WriteHandle::add(rs, id)
add(h, rs, id) ==
    /\ panicked = "none"
    /\ Len(oplog[h]) + Len(rs) <= MaxPending
    /\ FitsBag(h, rs)
    /\ wh[h].mem_size + backend_add(rs, wh[h].uid, oplog[h], 0).delta <= MaxMem
    /\ LET res == backend_add(rs, wh[h].uid, oplog[h], 0)
           mem_delta == res.delta
       IN
       /\ oplog' = [oplog EXCEPT ![h] = res.log]
       /\ IF mem_delta > 0
          THEN /\ wh' = [wh EXCEPT ![h].mem_size = @ + mem_delta]
               /\ panicked' = panicked
          ELSE IF mem_delta < 0
          THEN IF wh[h].mem_size + mem_delta < 0
               THEN /\ panicked' = "add: mem_size underflow"
                    /\ wh' = wh
               ELSE /\ wh' = [wh EXCEPT ![h].mem_size = @ + mem_delta]
                    /\ panicked' = panicked
          ELSE /\ wh' = wh
               /\ panicked' = panicked
    /\ AddHist(h, rs)
    /\ UNCHANGED <<rmap, ready, rh>>

\* swap that publishes the first staged operation only
swap_first_only(h) ==
    /\ panicked = "none"
    /\ rmap' = IF oplog[h] = <<>> THEN rmap ELSE ApplyOp(Head(oplog[h]), rmap)
    /\ ready' = TRUE
    /\ oplog' = [oplog EXCEPT ![h] = IF @ = <<>> THEN @ ELSE Tail(@)]
    /\ last' = Call("swap", NoKey)
    /\ calls' = Round
    /\ swapped' = TRUE
    /\ UNCHANGED <<wh, rh, panicked, written, only_adds, expect, cloned, triggered>>

\* what the write handles 0..(n - 1) have staged, applied to a side of the map
RECURSIVE ApplyAll(_, _)
ApplyAll(n, m) == IF n = 0 THEN m ELSE Apply(oplog[n - 1], ApplyAll(n - 1, m))

\* swap that publishes what every write handle of the map has staged, the
\* other handles keeping their operations staged
swap_publishes_all(h) ==
    /\ panicked = "none"
    /\ rmap' = ApplyAll(Cardinality(DOMAIN oplog), rmap)
    /\ ready' = TRUE
    /\ oplog' = [oplog EXCEPT ![h] = <<>>]
    /\ last' = Call("swap", NoKey)
    /\ calls' = Round
    /\ swapped' = TRUE
    /\ UNCHANGED <<wh, rh, panicked, written, only_adds, expect, cloned, triggered>>

\* swap that initialises the map only when it has something to publish
swap_ready_if_staged(h) ==
    /\ panicked = "none"
    /\ rmap' = Apply(oplog[h], rmap)
    /\ ready' = (ready \/ oplog[h] # <<>>)
    /\ oplog' = [oplog EXCEPT ![h] = <<>>]
    /\ last' = Call("swap", NoKey)
    /\ calls' = Round
    /\ swapped' = TRUE
    /\ UNCHANGED <<wh, rh, panicked, written, only_adds, expect, cloned, triggered>>

\* swap that initialises the map and throws the staged operations away
swap_unpublished(h) ==
    /\ panicked = "none"
    /\ rmap' = rmap
    /\ ready' = TRUE
    /\ oplog' = [oplog EXCEPT ![h] = <<>>]
    /\ last' = Call("swap", NoKey)
    /\ calls' = Round
    /\ swapped' = TRUE
    /\ UNCHANGED <<wh, rh, panicked, written, only_adds, expect, cloned, triggered>>

\* swap that replays the staged operations twice on the side it publishes
swap_replayed_twice(h) ==
    /\ panicked = "none"
    /\ rmap' = Apply(oplog[h], Apply(oplog[h], rmap))
    /\ ready' = TRUE
    /\ oplog' = [oplog EXCEPT ![h] = <<>>]
    /\ last' = Call("swap", NoKey)
    /\ calls' = Round
    /\ swapped' = TRUE
    /\ UNCHANGED <<wh, rh, panicked, written, only_adds, expect, cloned, triggered>>

\* WriteHandle::swap: refresh of the backing map publishes the staged operations
swap(h) ==
    /\ panicked = "none"
    /\ rmap' = Apply(oplog[h], rmap)
    /\ ready' = TRUE
    /\ oplog' = [oplog EXCEPT ![h] = <<>>]
    /\ last' = Call("swap", NoKey)
    /\ calls' = Round
    /\ swapped' = TRUE
    /\ UNCHANGED <<wh, rh, panicked, written, only_adds, expect, cloned, triggered>>

\* mark_filled that probes the key and then does not clear it
mark_filled_no_clear(h, k) ==
    /\ panicked = "none"
    /\ Len(oplog[h]) < MaxPending
    /\ LET g == meta_get_and(wh[h].uid, k) IN
       IF g.some /\ ~g.found
       THEN /\ written' = written \cup {k}
            /\ panicked' = panicked
       ELSE /\ panicked' = "attempted to fill already-filled key"
            /\ UNCHANGED written
    /\ KeyHist("mark_filled", k, panicked' = "none")
    /\ UNCHANGED <<rmap, ready, oplog, wh, rh>>

\* mark_filled that clears the key without probing it
mark_filled_always(h, k) ==
    /\ panicked = "none"
    /\ Len(oplog[h]) < MaxPending
    /\ oplog' = [oplog EXCEPT ![h] = Append(@, OpClear(k))]
    /\ written' = written \cup {k}
    /\ KeyHist("mark_filled", k, TRUE)
    /\ UNCHANGED <<rmap, ready, wh, rh, panicked>>

\* mark_filled that also takes a key whose entry holds no record
mark_filled_accepts_empty(h, k) ==
    /\ panicked = "none"
    /\ Len(oplog[h]) < MaxPending
    /\ LET g == meta_get_and(wh[h].uid, k) IN
       IF g.some /\ (~g.found \/ g.rs = <<>>)
       THEN /\ oplog' = [oplog EXCEPT ![h] = Append(@, OpClear(k))]
            /\ written' = written \cup {k}
            /\ panicked' = panicked
       ELSE /\ panicked' = "attempted to fill already-filled key"
            /\ UNCHANGED <<oplog, written>>
    /\ KeyHist("mark_filled", k, panicked' = "none")
    /\ UNCHANGED <<rmap, ready, wh, rh>>

\* MutWriteHandleEntry::mark_filled
mark_filled(h, k) ==
    /\ panicked = "none"
    /\ Len(oplog[h]) < MaxPending
    /\ IF wh[h].srmap
       THEN LET g == meta_get_and(wh[h].uid, k) IN
            IF g.some /\ ~g.found
            THEN /\ oplog' = [oplog EXCEPT ![h] = Append(@, OpClear(k))]
                 /\ written' = written \cup {k}
                 /\ panicked' = panicked
            ELSE /\ panicked' = "attempted to fill already-filled key"
                 /\ UNCHANGED <<oplog, written>>
       ELSE UNCHANGED <<oplog, written, panicked>>
    /\ KeyHist("mark_filled", k, panicked' = "none" /\ wh[h].srmap)
    /\ UNCHANGED <<rmap, ready, wh, rh>>

\* mark_hole that clears the key where it should empty it
mark_hole_clears(h, k) ==
    /\ panicked = "none"
    /\ Len(oplog[h]) < MaxPending
    /\ LET g == meta_get_and(wh[h].uid, k)
           size == IF g.some /\ g.found THEN SumSizes(g.rs) ELSE 0
       IN
       IF wh[h].mem_size - size < 0
       THEN /\ panicked' = "mark_hole: mem_size underflow"
            /\ UNCHANGED <<oplog, wh>>
       ELSE /\ wh' = [wh EXCEPT ![h].mem_size = @ - size]
            /\ oplog' = [oplog EXCEPT ![h] = Append(@, OpClear(k))]
            /\ panicked' = panicked
    /\ KeyHist("mark_hole", k, panicked' = "none")
    /\ UNCHANGED <<rmap, ready, rh, written>>

\* mark_hole that empties the key and leaves mem_size as it is
mark_hole_keeps_size(h, k) ==
    /\ panicked = "none"
    /\ Len(oplog[h]) < MaxPending
    /\ oplog' = [oplog EXCEPT ![h] = Append(@, OpEmpty(k))]
    /\ KeyHist("mark_hole", k, TRUE)
    /\ UNCHANGED <<rmap, ready, wh, rh, panicked, written>>

\* mark_hole that unwraps the size of the key: it aborts where the probe
\* finds no entry or no map
mark_hole_strict(h, k) ==
    /\ panicked = "none"
    /\ Len(oplog[h]) < MaxPending
    /\ LET g == meta_get_and(wh[h].uid, k) IN
       IF ~g.some \/ ~g.found
       THEN /\ panicked' = "called Option::unwrap() on a None value"
            /\ UNCHANGED <<oplog, wh>>
       ELSE /\ wh[h].mem_size - SumSizes(g.rs) >= 0
            /\ wh' = [wh EXCEPT ![h].mem_size = @ - SumSizes(g.rs)]
            /\ oplog' = [oplog EXCEPT ![h] = Append(@, OpEmpty(k))]
            /\ panicked' = panicked
    /\ KeyHist("mark_hole", k, panicked' = "none")
    /\ UNCHANGED <<rmap, ready, rh, written>>

\* mark_hole that empties the key on the published side at once
mark_hole_eager(h, k) ==
    /\ panicked = "none"
    /\ Len(oplog[h]) < MaxPending
    /\ LET g == meta_get_and(wh[h].uid, k)
           size == IF g.some /\ g.found THEN SumSizes(g.rs) ELSE 0
       IN
       /\ wh[h].mem_size - size >= 0
       /\ wh' = [wh EXCEPT ![h].mem_size = @ - size]
       /\ rmap' = ApplyOp(OpEmpty(k), rmap)
    /\ KeyHist("mark_hole", k, TRUE)
    /\ UNCHANGED <<ready, oplog, rh, panicked, written>>

\* MutWriteHandleEntry::mark_hole
mark_hole(h, k) ==
    /\ panicked = "none"
    /\ Len(oplog[h]) < MaxPending
    /\ IF wh[h].srmap
       THEN LET g == meta_get_and(wh[h].uid, k)
                size == IF g.some /\ g.found THEN SumSizes(g.rs) ELSE 0
            IN
            IF wh[h].mem_size - size < 0
            THEN /\ panicked' = "mark_hole: mem_size underflow"
                 /\ UNCHANGED <<oplog, wh>>
            ELSE /\ wh' = [wh EXCEPT ![h].mem_size = @ - size]
                 /\ oplog' = [oplog EXCEPT ![h] = Append(@, OpEmpty(k))]
                 /\ panicked' = panicked
       ELSE UNCHANGED <<oplog, wh, panicked>>
    /\ KeyHist("mark_hole", k, panicked' = "none" /\ wh[h].srmap)
    /\ UNCHANGED <<rmap, ready, rh, written>>

\* evict_random_key that clears the key it takes where it should empty it
evict_random_key_clears(h, rng) ==
    /\ panicked = "none"
    /\ Len(oplog[h]) < MaxPending
    /\ wh[h].mem_size > 0
    /\ ~is_empty
    /\ LET k == empty_at_index(rng)
           vs == rmap[k].rs
           bytes_to_be_freed == SumSizes([i \in 1..Len(vs) |-> vs[i].rec])
       IN
       /\ wh[h].mem_size - bytes_to_be_freed >= 0
       /\ oplog' = [oplog EXCEPT ![h] = Append(@, OpClear(k))]
       /\ wh' = [wh EXCEPT ![h].mem_size = @ - bytes_to_be_freed]
       /\ EvictHist(k, TRUE, Returned(bytes_to_be_freed))
    /\ UNCHANGED <<rmap, ready, rh, panicked, written>>

\* evict_random_key that frees the bytes of the key it takes and leaves the
\* key in the map
evict_random_key_unstaged(h, rng) ==
    /\ panicked = "none"
    /\ Len(oplog[h]) < MaxPending
    /\ wh[h].mem_size > 0
    /\ ~is_empty
    /\ LET k == empty_at_index(rng)
           vs == rmap[k].rs
           bytes_to_be_freed == SumSizes([i \in 1..Len(vs) |-> vs[i].rec])
       IN
       /\ wh[h].mem_size - bytes_to_be_freed >= 0
       /\ wh' = [wh EXCEPT ![h].mem_size = @ - bytes_to_be_freed]
       /\ EvictHist(k, TRUE, Returned(bytes_to_be_freed))
    /\ UNCHANGED <<rmap, ready, oplog, rh, panicked, written>>

\* WriteHandle::evict_random_key(rng)
evict_random_key(h, rng) ==
    /\ panicked = "none"
    /\ Len(oplog[h]) < MaxPending
    /\ IF wh[h].mem_size > 0
       THEN IF is_empty
            THEN /\ panicked' = "mem size is positive, but map is empty"
                 /\ EvictHist(NoKey, FALSE, Aborted)
                 /\ UNCHANGED <<oplog, wh>>
            ELSE LET k == empty_at_index(rng)
                     vs == rmap[k].rs
                     bytes_to_be_freed == SumSizes([i \in 1..Len(vs) |-> vs[i].rec])
                 IN
                 /\ oplog' = [oplog EXCEPT ![h] = Append(@, OpEmpty(k))]
                 /\ IF wh[h].mem_size - bytes_to_be_freed < 0
                    THEN /\ panicked' = "evict_random_key: mem_size underflow"
                         /\ wh' = wh
                         /\ EvictHist(k, TRUE, Aborted)
                    ELSE /\ wh' = [wh EXCEPT ![h].mem_size = @ - bytes_to_be_freed]
                         /\ panicked' = panicked
                         /\ EvictHist(k, TRUE, Returned(bytes_to_be_freed))
       ELSE /\ EvictHist(NoKey, FALSE, Returned(0))
            /\ UNCHANGED <<oplog, wh, panicked>>
    /\ UNCHANGED <<rmap, ready, rh, written>>

\* ------------------------------------------------------------- multi-user

\* clone_new_user() of the backing map, the user id it returns: one that no
\* handle of the map is bound to
backend_clone_new_user ==
    CHOOSE u \in 0..Cardinality(DOMAIN wh) :
        /\ \A h \in DOMAIN wh : wh[h].uid < u
        /\ \A v \in 0..(u - 1) : \E h \in DOMAIN wh : wh[h].uid >= v

\* None, and Some((r, w)): the handles are named by their place in rh and wh
CloneNone == [called |-> TRUE, some |-> FALSE]
CloneSome(r, w) == [called |-> TRUE, some |-> TRUE, r |-> r, w |-> w]

\* what a clone call leaves of the history variables
CloneHist(op) ==
    /\ last' = Call(op, NoKey)
    /\ calls' = Round
    /\ UNCHANGED <<swapped, written, only_adds, triggered>>

\* clone_new_user whose reader keeps the uid of the reader it was made from
clone_new_user_reader_uid(h, r) ==
    /\ panicked = "none"
    /\ Cardinality(DOMAIN wh) < MaxHandles
    /\ LET uid == backend_clone_new_user
           n == Cardinality(DOMAIN wh)
       IN
       /\ rh' = rh @@ (n :> [srmap |-> TRUE, trigger |-> rh[r].trigger, uid |-> rh[r].uid])
       /\ wh' = wh @@ (n :> [srmap |-> TRUE, partial |-> wh[h].partial,
                             mem_size |-> wh[h].mem_size, uid |-> uid])
       /\ oplog' = oplog @@ (n :> <<>>)
       /\ expect' = expect @@ (n :> NoRecords)
       /\ cloned' = CloneSome(n, n)
    /\ CloneHist("clone_new_user")
    /\ UNCHANGED <<rmap, ready, panicked>>

\* WriteHandle::clone_new_user(r) with SingleReadHandle::clone_new_user
clone_new_user(h, r) ==
    /\ panicked = "none"
    /\ Cardinality(DOMAIN wh) < MaxHandles
    /\ IF wh[h].srmap
       THEN LET uid == backend_clone_new_user
                n == Cardinality(DOMAIN wh)
            IN
            /\ rh' = rh @@ (n :> [srmap |-> TRUE, trigger |-> rh[r].trigger, uid |-> uid])
            /\ wh' = wh @@ (n :> [srmap |-> TRUE, partial |-> wh[h].partial,
                                  mem_size |-> wh[h].mem_size, uid |-> uid])
            /\ oplog' = oplog @@ (n :> <<>>)
            /\ expect' = expect @@ (n :> NoRecords)
            /\ cloned' = CloneSome(n, n)
       ELSE /\ cloned' = CloneNone
            /\ UNCHANGED <<rh, wh, oplog, expect>>
    /\ CloneHist("clone_new_user")
    /\ UNCHANGED <<rmap, ready, panicked>>

\* clone_new_user_partial that counts the new uid up from the writer's own
clone_new_user_partial_next_uid(h, r, trigger) ==
    /\ panicked = "none"
    /\ Cardinality(DOMAIN wh) < MaxHandles
    /\ LET uid == wh[h].uid + 1
           n == Cardinality(DOMAIN wh)
       IN
       /\ rh' = rh @@ (n :> [srmap |-> TRUE, trigger |-> trigger, uid |-> uid])
       /\ wh' = wh @@ (n :> [srmap |-> TRUE, partial |-> wh[h].partial,
                             mem_size |-> wh[h].mem_size, uid |-> uid])
       /\ oplog' = oplog @@ (n :> <<>>)
       /\ expect' = expect @@ (n :> NoRecords)
       /\ cloned' = CloneSome(n, n)
    /\ CloneHist("clone_new_user_partial")
    /\ UNCHANGED <<rmap, ready, panicked>>

\* WriteHandle::clone_new_user_partial(r, trigger) with
\* SingleReadHandle::clone_new_user_partial
clone_new_user_partial(h, r, trigger) ==
    /\ panicked = "none"
    /\ Cardinality(DOMAIN wh) < MaxHandles
    /\ IF wh[h].srmap
       THEN LET uid == backend_clone_new_user
                n == Cardinality(DOMAIN wh)
            IN
            /\ rh' = rh @@ (n :> [srmap |-> TRUE, trigger |-> trigger, uid |-> uid])
            /\ wh' = wh @@ (n :> [srmap |-> TRUE, partial |-> wh[h].partial,
                                  mem_size |-> wh[h].mem_size, uid |-> uid])
            /\ oplog' = oplog @@ (n :> <<>>)
            /\ expect' = expect @@ (n :> NoRecords)
            /\ cloned' = CloneSome(n, n)
       ELSE /\ cloned' = CloneNone
            /\ UNCHANGED <<rh, wh, oplog, expect>>
    /\ CloneHist("clone_new_user_partial")
    /\ UNCHANGED <<rmap, ready, panicked>>

\* clone whose writer starts with an empty account
clone_zero_size(h, r) ==
    /\ panicked = "none"
    /\ Cardinality(DOMAIN wh) < MaxHandles
    /\ LET n == Cardinality(DOMAIN wh) IN
       /\ rh' = rh @@ (n :> [srmap |-> TRUE, trigger |-> rh[r].trigger, uid |-> wh[h].uid])
       /\ wh' = wh @@ (n :> [srmap |-> TRUE, partial |-> wh[h].partial,
                             mem_size |-> 0, uid |-> wh[h].uid])
       /\ oplog' = oplog @@ (n :> <<>>)
       /\ expect' = expect @@ (n :> NoRecords)
       /\ cloned' = CloneSome(n, n)
    /\ CloneHist("clone")
    /\ UNCHANGED <<rmap, ready, panicked>>

\* WriteHandle::clone(r) with SingleReadHandle::clone: a second pair of handles
\* for the writer's own uid; the duplicate stages its operations in a queue of
\* its own
clone(h, r) ==
    /\ panicked = "none"
    /\ Cardinality(DOMAIN wh) < MaxHandles
    /\ IF wh[h].srmap /\ rh[r].srmap
       THEN LET n == Cardinality(DOMAIN wh) IN
            /\ rh' = rh @@ (n :> [srmap |-> TRUE, trigger |-> rh[r].trigger, uid |-> wh[h].uid])
            /\ wh' = wh @@ (n :> [srmap |-> TRUE, partial |-> wh[h].partial,
                                  mem_size |-> wh[h].mem_size, uid |-> wh[h].uid])
            /\ oplog' = oplog @@ (n :> <<>>)
            /\ expect' = expect @@ (n :> NoRecords)
            /\ cloned' = CloneSome(n, n)
       ELSE /\ cloned' = CloneNone
            /\ UNCHANGED <<rh, wh, oplog, expect>>
    /\ CloneHist("clone")
    /\ UNCHANGED <<rmap, ready, panicked>>

\* WriteHandle::is_partial
is_partial(h) == wh[h].partial

\* ----------------------------------------------------------------- readers


\* the call trigger(key, id)
TriggerCall(k, id) == [op |-> "trigger", key |-> k, id |-> id]

\* what a call on a read handle leaves of the history variables
ReadHist(call) ==
    /\ last' = call
    /\ calls' = Round
    /\ UNCHANGED <<swapped, written, only_adds, expect, cloned>>

\* len() of the backing map, read side: the keys that have an entry
backend_len == Len(PresentKeys)

\* SingleReadHandle::len
len(h) == backend_len

\* SingleReadHandle::count_rows: for_each of the backing map, read side, sums
\* the lengths of the bags the handle sees
count_rows(h) == CountVisible(rmap, KeyOrder, rh[h].uid)

\* a reader calls SingleReadHandle::try_find_and(key, then): the lookup
\* changes nothing, of the table or of the callback
try_find_and_call(h, k) ==
    /\ panicked = "none"
    /\ ReadHist(Call("try_find_and", k))
    /\ UNCHANGED <<rmap, ready, oplog, wh, rh, panicked, triggered>>

\* trigger that does nothing on a view without a trigger
trigger_lenient(h, k, id) ==
    /\ panicked = "none"
    /\ Len(triggered) < MaxTriggered
    /\ triggered' = IF rh[h].trigger THEN Append(triggered, [key |-> k, id |-> id]) ELSE triggered
    /\ ReadHist(TriggerCall(k, id))
    /\ UNCHANGED <<rmap, ready, oplog, wh, rh, panicked>>

\* SingleReadHandle::trigger(key, id)
trigger(h, k, id) ==
    /\ panicked = "none"
    /\ Len(triggered) < MaxTriggered
    /\ IF ~rh[h].trigger
       THEN /\ panicked' = "tried to trigger a replay for a fully materialized view"
            /\ UNCHANGED triggered
       ELSE /\ triggered' = Append(triggered, [key |-> k, id |-> id])
            /\ UNCHANGED panicked
    /\ ReadHist(TriggerCall(k, id))
    /\ UNCHANGED <<rmap, ready, oplog, wh, rh>>

\* a call on the table leaves the ReadHandle and the test threads alone
TableOnly == UNCHANGED <<router, pc, fill, extracted, actor, given>>

Next ==
    \/ \E h \in DOMAIN wh, rs \in Batches : add(h, rs, IdNone) /\ TableOnly
    \/ \E h \in DOMAIN wh : swap(h) /\ TableOnly
    \/ \E h \in DOMAIN wh, k \in KeySet : mark_filled(h, k) /\ TableOnly
    \/ \E h \in DOMAIN wh, k \in KeySet : mark_hole(h, k) /\ TableOnly
    \/ \E h \in DOMAIN wh, rng \in RngVals : evict_random_key(h, rng) /\ TableOnly

Spec == Init /\ [][Next]_vars

\* the records the map holds and the operations staged on it, counted together
TotalRecords ==
    CountRecords(rmap, KeyOrder)
        + Cardinality({<<h, i>> \in (DOMAIN oplog) \X (1..MaxPending) : i <= Len(oplog[h])})

\* the table with several users: the writers add and swap, and clone new users
NextMU ==
    \/ \E h \in DOMAIN wh, r \in UserRecords :
            TotalRecords < MaxShared /\ add(h, <<Positive(r)>>, IdNone) /\ TableOnly
    \/ \E h \in DOMAIN wh : swap(h) /\ TableOnly
    \/ \E h \in DOMAIN wh, r \in DOMAIN rh :
            Cardinality(DOMAIN wh) < MaxUsers /\ clone_new_user(h, r) /\ TableOnly

SpecMU == Init /\ [][NextMU]_vars

\* the clones: any writer clones a new user, with any reader and any trigger
NextClone ==
    \/ \E h \in DOMAIN wh, r \in DOMAIN rh : clone_new_user(h, r) /\ TableOnly
    \/ \E h \in DOMAIN wh, r \in DOMAIN rh, trig \in BOOLEAN :
            clone_new_user_partial(h, r, trig) /\ TableOnly
    \/ \E h \in DOMAIN wh, r \in UserRecords :
            TotalRecords < MaxCloneRecords /\ add(h, <<Positive(r)>>, IdNone) /\ TableOnly
    \/ \E h \in DOMAIN wh : swap(h) /\ TableOnly

SpecClone == Init /\ [][NextClone]_vars

\* a reader that looks keys up and asks for replays, next to the writer
NextRead ==
    \/ \E h \in DOMAIN rh, k \in KeySet : try_find_and_call(h, k) /\ TableOnly
    \/ \E h \in DOMAIN rh, k \in KeySet :
            \E id \in {IdNone, IdSome(rh[h].uid)} : trigger(h, k, id) /\ TableOnly
    \/ \E h \in DOMAIN wh, r \in ReplayRecords : add(h, <<Positive(r)>>, IdNone) /\ TableOnly
    \/ \E h \in DOMAIN wh : swap(h) /\ TableOnly
    \/ \E h \in DOMAIN wh, k \in KeySet : mark_filled(h, k) /\ TableOnly
    \/ \E h \in DOMAIN wh, k \in KeySet : mark_hole(h, k) /\ TableOnly

SpecRead == Init /\ [][NextRead]_vars

\* ---------------------------------------------------------------- ReadHandle

\* the shards a Sharded ReadHandle is built with, at most
MaxShards == 2

\* shard_by(&key[0], n): the shard that owns a key column, a stable hash modulo n
shard_by(k, n) == k % n

\* the arguments shard of set_single_handle: None, or Some(index)
ShardArgs == {IdNone} \cup {IdSome(i) : i \in 0..(MaxShards - 1)}

\* a caller builds ReadHandle::Singleton(None) or ReadHandle::Sharded(vec![None; n])
ReadHandle_new(shape, n) ==
    /\ panicked = "none"
    /\ router = NoRouter
    /\ router' = IF shape = "Singleton" THEN Singleton(IdNone)
                 ELSE Sharded([i \in 1..n |-> IdNone])
    /\ ReadHist(Call("ReadHandle", NoKey))
    /\ UNCHANGED <<rmap, ready, oplog, wh, rh, panicked, triggered, pc, fill, extracted, actor, given>>

\* the call set_single_handle(shard, handle)
SetCall(shard, handle) ==
    [op |-> "set_single_handle", key |-> NoKey, shard |-> shard, handle |-> handle]

\* the slot a call set_single_handle(shard, _) is aimed at, 0 if there is none
TargetSlot(rt, shard) ==
    IF shard = IdNone
    THEN (IF Len(rt.slots) = 1 THEN 1 ELSE 0)
    ELSE IF rt.shape = "Sharded" /\ shard[1] < Len(rt.slots) THEN shard[1] + 1
    ELSE 0

\* ReadHandle::set_single_handle(shard, handle)
set_single_handle(shard, handle) ==
    /\ panicked = "none"
    /\ router # NoRouter
    /\ IF router.shape = "Singleton" /\ shard = IdNone
       THEN /\ router' = Singleton(IdSome(handle))
            /\ panicked' = panicked
       ELSE IF router.shape = "Sharded" /\ shard = IdNone
       THEN IF Len(router.slots) # 1
            THEN panicked' = "assertion failed: rhs.len() == 1" /\ router' = router
            ELSE IF router.slots[1] # IdNone
            THEN panicked' = "assertion failed: srh.is_none()" /\ router' = router
            ELSE router' = Sharded(<<IdSome(handle)>>) /\ panicked' = panicked
       ELSE IF router.shape = "Sharded"
       THEN IF shard[1] >= Len(router.slots)
            THEN panicked' = "called Option::unwrap() on a None value" /\ router' = router
            ELSE IF router.slots[shard[1] + 1] # IdNone
            THEN panicked' = "assertion failed: srh.is_none()" /\ router' = router
            ELSE /\ router' = [router EXCEPT !.slots[shard[1] + 1] = IdSome(handle)]
                 /\ panicked' = panicked
       ELSE panicked' = "unreachable: a shard of a Singleton" /\ router' = router
    /\ ReadHist(SetCall(shard, handle))
    /\ UNCHANGED <<rmap, ready, oplog, wh, rh, triggered, pc, fill, extracted, actor, given>>

\* the call ReadHandle::try_find_and(key, then), with what it returned
RouterCall(k, ret) == [op |-> "ReadHandle::try_find_and", key |-> k, ret |-> ret]

\* ReadHandle::try_find_and(key, then) with then = identity; the arm of
\* Sharded is commented out, so the catch-all arm takes it
ReadHandle_try_find_and(k) ==
    /\ panicked = "none"
    /\ router # NoRouter
    /\ IF router.shape = "Singleton"
       THEN IF router.slots[1] # IdNone
            THEN /\ ReadHist(RouterCall(k, Returned(try_find_and(router.slots[1][1], k))))
                 /\ panicked' = panicked
            ELSE /\ panicked' = "unimplemented"
                 /\ ReadHist(RouterCall(k, Aborted))
       ELSE /\ panicked' = "can't get this to compile"
            /\ ReadHist(RouterCall(k, Aborted))
    /\ UNCHANGED <<rmap, ready, oplog, wh, rh, triggered, router, pc, fill, extracted, actor, given>>

\* a ReadHandle over the read handles of a table that is written and cloned
NextRouter ==
    \/ \E shape \in {"Singleton", "Sharded"}, n \in 1..MaxShards : ReadHandle_new(shape, n)
    \/ \E shard \in ShardArgs, handle \in DOMAIN rh : set_single_handle(shard, handle)
    \/ \E k \in KeySet : ReadHandle_try_find_and(k)
    \/ \E h \in DOMAIN wh, r \in DOMAIN rh :
            Cardinality(DOMAIN wh) < MaxUsers /\ clone_new_user(h, r) /\ TableOnly
    \/ \E h \in DOMAIN wh, r \in ReplayRecords :
            TotalRecords < MaxCloneRecords /\ add(h, <<Positive(r)>>, IdNone) /\ TableOnly
    \/ \E h \in DOMAIN wh : swap(h) /\ TableOnly

SpecRouter == Init /\ [][NextRouter]_vars

\* ------------------------------------------------------------- busy threads

\* the records the writer thread of the busy test inserts, one per key
BusyRecords == <<<<1, "a">>, <<2, "c">>>>

\* the number n of records of the busy test
BusyN == Len(BusyRecords)

\* the key the reader thread polls in its round i
BusyKey(i) == key_from_record(KeyCols, BusyRecords[i])

\* writer thread, head of `for i in 0..n`
busy_writer_for ==
    /\ pc.writer = "for"
    /\ pc' = [pc EXCEPT !.writer = IF pc.i <= BusyN THEN "add" ELSE "done"]
    /\ UNCHANGED <<rmap, ready, oplog, wh, rh, panicked, last, calls, swapped, written,
                   only_adds, expect, cloned, triggered, router, fill, extracted, actor, given>>

\* writer thread, first statement of the loop body: w.add(vec![Positive(record i)])
busy_add ==
    /\ pc.writer = "add"
    /\ add(0, <<Positive(BusyRecords[pc.i])>>, IdNone)
    /\ pc' = [pc EXCEPT !.writer = "swap"]
    /\ UNCHANGED <<router, fill, extracted, actor, given>>

\* writer thread, second statement of the loop body: w.swap()
busy_swap ==
    /\ pc.writer = "swap"
    /\ swap(0)
    /\ pc' = [pc EXCEPT !.writer = "for", !.i = @ + 1]
    /\ UNCHANGED <<router, fill, extracted, actor, given>>

\* reader thread, head of `for i in 0..n`
busy_reader_for ==
    /\ pc.reader = "for"
    /\ pc' = [pc EXCEPT !.reader = IF pc.j <= BusyN THEN "poll" ELSE "done"]
    /\ UNCHANGED <<rmap, ready, oplog, wh, rh, panicked, last, calls, swapped, written,
                   only_adds, expect, cloned, triggered, router, fill, extracted, actor, given>>

\* reader thread, head of its inner loop: r.try_find_and(i, |rs| rs.len())
busy_poll ==
    /\ pc.reader = "poll"
    /\ try_find_and_call(0, BusyKey(pc.j))
    /\ pc' = [pc EXCEPT !.res = try_find_and(0, BusyKey(pc.j)), !.reader = "match"]
    /\ UNCHANGED <<router, fill, extracted, actor, given>>

\* reader thread, the match on the result: Ok((Some(1), _)) breaks out to the
\* next key; Ok((None, _)), Err(()) and Ok((Some(i), _)), whose assert_ne!(i, 1)
\* cannot fail after the arm Some(1), go round the inner loop again
busy_match ==
    /\ pc.reader = "match"
    /\ pc' = IF pc.res.tag = "Some" /\ Len(pc.res.rs) = 1
             THEN [pc EXCEPT !.reader = "for", !.j = @ + 1]
             ELSE [pc EXCEPT !.reader = "poll"]
    /\ UNCHANGED <<rmap, ready, oplog, wh, rh, panicked, last, calls, swapped, written,
                   only_adds, expect, cloned, triggered, router, fill, extracted, actor, given>>

\* a step of the writer thread, a step of the reader thread
BusyWriter == busy_writer_for \/ busy_add \/ busy_swap
BusyReader == busy_reader_for \/ busy_poll \/ busy_match

NextBusy ==
    \/ busy_writer_for
    \/ busy_add
    \/ busy_swap
    \/ busy_reader_for
    \/ busy_poll
    \/ busy_match

\* the two threads of the busy test under a fair scheduler: a thread that can
\* take a step takes it eventually
SpecBusy ==
    /\ Init
    /\ [][NextBusy]_vars
    /\ WF_vars(BusyWriter)
    /\ WF_vars(BusyReader)

\* -------------------------------------------------------------- miss and fill

\* the batches of a replay: one or two Positive records
PositiveBatches ==
    {<<Positive(r)>> : r \in Records}
    \cup {<<Positive(r1), Positive(r2)>> : r1 \in Records, r2 \in Records}

\* what a swap that publishes the calls cs makes of the history of the fills
RECURSIVE FillAfter(_, _)
FillAfter(cs, f) ==
    IF cs = <<>> THEN f
    ELSE LET c == Head(cs) IN
         FillAfter(Tail(cs),
                   IF c.op = "mark_filled" THEN [f EXCEPT ![c.key] = 0]
                   ELSE IF c.op = "add"
                   THEN [f EXCEPT ![c.key] = IF @ = NotFilled THEN @ ELSE @ + 1]
                   ELSE [f EXCEPT ![c.key] = NotFilled])

\* a call that publishes nothing leaves the history of the fills as it is
Staging == UNCHANGED <<router, pc, fill, extracted, actor, given>>

\* a swap publishes the calls of its round, the fills among them
Publishing == fill' = FillAfter(Round, fill) /\ UNCHANGED <<router, pc, extracted, actor, given>>

\* the writer of a partial or full table that fills keys, replays records into
\* them and empties them again
NextFill ==
    \/ \E h \in DOMAIN wh, k \in KeySet : mark_filled(h, k) /\ Staging
    \/ \E h \in DOMAIN wh, rs \in PositiveBatches : add(h, rs, IdNone) /\ Staging
    \/ \E h \in DOMAIN wh, k \in KeySet : mark_hole(h, k) /\ Staging
    \/ \E h \in DOMAIN wh : swap(h) /\ Publishing

SpecFill == Init /\ [][NextFill]_vars

\* ---------------------------------------------------------- key_from_record

\* the columns of a record and the columns of a key, at most
MaxCols == 3
MaxKeyLen == 2

\* the values of a column
ColumnVals == {1, 2}

\* the records of MaxCols columns
WideRecords == [1..MaxCols -> ColumnVals]

\* key: &[usize] as the allocator takes it: any non-empty list of columns
KeyLists == UNION {[1..n -> 0..(MaxCols - 1)] : n \in 1..MaxKeyLen}

\* contiguous of new_inner: every key column is the one before it plus one
contiguous(key) == \A i \in 2..Len(key) : key[i] = key[i - 1] + 1

\* record.retain(..) of the owned path: the record is walked once, i counts
\* its columns from 0, and a column is kept when it is the next of keep
RECURSIVE retain(_, _, _)
retain(record, i, keep) ==
    IF record = <<>> THEN <<>>
    ELSE IF keep # <<>> /\ Head(keep) = i
    THEN <<Head(record)>> \o retain(Tail(record), i + 1, Tail(keep))
    ELSE retain(Tail(record), i + 1, keep)

\* key_from_record(key, contiguous, record), record owned or borrowed
key_from_record_cow(key, contig, record, owned) ==
    IF owned THEN retain(record, 0, key)
    ELSE IF contig THEN SubSeq(record, key[1] + 1, key[1] + Len(key))
    ELSE key_from_record(key, record)

\* a caller extracts the key of a record, owned or borrowed, of a table
\* allocated with the key columns key
key_from_record_call(key, record, owned) ==
    /\ extracted' = [called |-> TRUE, key |-> key, record |-> record, owned |-> owned,
                     out |-> key_from_record_cow(key, contiguous(key), record, owned)]
    /\ UNCHANGED <<rmap, ready, oplog, wh, rh, panicked, last, calls, swapped, written,
                   only_adds, expect, cloned, triggered, router, pc, fill, actor, given>>

NextKey ==
    \E key \in KeyLists, record \in WideRecords, owned \in BOOLEAN :
        key_from_record_call(key, record, owned)

SpecKey == Init /\ [][NextKey]_vars

\* ------------------------------------------------------------ pairs of handles

\* the handles of the table and the records and staged operations of its map,
\* counted together
PairSize == Cardinality(DOMAIN wh) + TotalRecords

\* write handle h makes a call
Acting(h) == actor' = h /\ UNCHANGED <<router, pc, fill, extracted, given>>

\* the pairs of handles of one table: a writer mints a pair with any of the
\* three clones, and every writer adds, marks holes, evicts and swaps
NextPair ==
    \/ \E h \in DOMAIN wh, r \in DOMAIN rh :
            Cardinality(DOMAIN wh) < MaxUsers /\ PairSize < MaxHandles
            /\ clone(h, r) /\ Acting(h)
    \/ \E h \in DOMAIN wh, r \in DOMAIN rh :
            Cardinality(DOMAIN wh) < MaxUsers /\ PairSize < MaxHandles
            /\ clone_new_user(h, r) /\ Acting(h)
    \/ \E h \in DOMAIN wh, r \in DOMAIN rh, trig \in BOOLEAN :
            Cardinality(DOMAIN wh) < MaxUsers /\ PairSize < MaxHandles
            /\ clone_new_user_partial(h, r, trig) /\ Acting(h)
    \/ \E h \in DOMAIN wh, r \in ReplayRecords :
            PairSize < MaxHandles /\ wh[h].mem_size < MaxCloneRecords
            /\ add(h, <<Positive(r)>>, IdNone) /\ Acting(h)
    \/ \E h \in DOMAIN wh : swap(h) /\ Acting(h)
    \/ \E h \in DOMAIN wh, k \in KeySet :
            PairSize <= MaxHandles /\ mark_hole(h, k) /\ Acting(h)
    \/ \E h \in DOMAIN wh, rng \in RngVals :
            PairSize <= MaxHandles /\ evict_random_key(h, rng) /\ Acting(h)

SpecPair == Init /\ [][NextPair]_vars

\* ------------------------------------------------------------ the id of an add

\* the id arguments a caller gives add: None, or Some(uid) of any user
IdArgs == {IdNone} \cup {IdSome(u) : u \in 0..(MaxUsers - 1)}

\* an add is called with the id argument id
Giving(id) == given' = id /\ UNCHANGED <<router, pc, fill, extracted, actor>>

\* the writers of several users add with any id argument, swap, and clone new users
NextId ==
    \/ \E h \in DOMAIN wh, r \in UserRecords, id \in IdArgs :
            TotalRecords < MaxCloneRecords /\ add(h, <<Positive(r)>>, id) /\ Giving(id)
    \/ \E h \in DOMAIN wh : swap(h) /\ TableOnly
    \/ \E h \in DOMAIN wh, r \in DOMAIN rh :
            Cardinality(DOMAIN wh) < MaxUsers /\ clone_new_user(h, r) /\ TableOnly

SpecId == Init /\ [][NextId]_vars

\* ------------------------------------------------------------------ claims

\* the multiset of a sequence of records
BagOf(rs) == [r \in Records |-> Cardinality({i \in 1..Len(rs) : rs[i] = r})]

\* how often the write handles 0..(n - 1) that are bound to uid u expect record r
RECURSIVE ExpectOfUid(_, _, _)
ExpectOfUid(u, r, n) ==
    IF n = 0 THEN 0
    ELSE (IF wh[n - 1].uid = u THEN expect[n - 1][r] ELSE 0) + ExpectOfUid(u, r, n - 1)

\* the part of expect that key k holds for uid u
ExpectFor(u, k) ==
    [r \in Records |->
        IF key_from_record(KeyCols, r) = k THEN ExpectOfUid(u, r, Cardinality(DOMAIN wh))
        ELSE 0]

\* the records a side of the map holds, as one sequence
RECURSIVE AllRecords(_, _)
AllRecords(m, ks) ==
    IF ks = <<>> THEN <<>>
    ELSE [i \in 1..Len(m[Head(ks)].rs) |-> m[Head(ks)].rs[i].rec] \o AllRecords(m, Tail(ks))

\* the call staged last on key k among cs ("none" if there is none)
RECURSIVE LastCallOn(_, _)
LastCallOn(cs, k) ==
    IF cs = <<>> THEN "none"
    ELSE IF cs[Len(cs)].key = k THEN cs[Len(cs)].op
    ELSE LastCallOn(SubSeq(cs, 1, Len(cs) - 1), k)

\* this step made key k, which reader h did not see Filled, Filled
BecomesFilled(h, k) ==
    /\ try_find_and(h, k).tag # "Some"
    /\ try_find_and(h, k)'.tag = "Some"

\* C1: until the writer's first swap, every try_find_and on every key returns
\* Err(()), whatever adds have been staged.
C1_NotReadyBeforeFirstSwap ==
    ~swapped => \A h \in DOMAIN rh, k \in KeySet : try_find_and(h, k) = Err

\* adds are staged and no swap has been called
C1_Witness ==
    /\ ~swapped
    /\ panicked = "none"
    /\ \E i \in 1..Len(oplog[0]) : oplog[0][i].op = "add"

\* C2: an add changes the result of no try_find_and: on every key a reader
\* gets after the add what it got before it, until the next swap.
C2_AddInvisibleUntilSwap ==
    [][last'.op = "add" =>
          \A h \in DOMAIN rh, k \in KeySet : try_find_and(h, k)' = try_find_and(h, k)]_vars

\* an add has staged a record that the answering reader does not see
C2_Witness ==
    /\ last.op = "add"
    /\ panicked = "none"
    /\ \E k \in KeySet :
          /\ try_find_and(0, k).tag = "Some"
          /\ Len(View(0)[k].rs) > Len(try_find_and(0, k).rs)

\* C3: round trip: after adds (in one batch or over several swaps) and a swap,
\* try_find_and returns for every key the multiset of the Positive records of
\* that key less one occurrence for each Negative that cancelled one; a key of
\* a partial view that reads as a miss has no such record.
C3_RoundTrip ==
    (only_adds /\ last.op = "swap" /\ panicked = "none") =>
        \A h \in DOMAIN rh, k \in KeySet :
            LET res == try_find_and(h, k) IN
            IF res.tag = "Some" THEN BagOf(res.rs) = ExpectFor(rh[h].uid, k)
            ELSE res.tag = "None" /\ rh[h].trigger /\ ExpectFor(rh[h].uid, k) = NoRecords

\* after adds and a swap one key has an entry that a Negative has emptied and
\* the other key holds a record
C3_Witness ==
    /\ only_adds
    /\ last.op = "swap"
    /\ \E k1 \in KeySet, k2 \in KeySet :
          /\ rmap[k1].present /\ rmap[k1].rs = <<>>
          /\ rmap[k2].present /\ rmap[k2].rs # <<>>

\* C4: what readers see changes at a swap only, and then by all the
\* operations staged since the previous swap at once.
C4_SwapPublishesWholeBatch ==
    [][(rmap' # rmap \/ ready' # ready) =>
          /\ last'.op = "swap"
          /\ \E h \in DOMAIN wh :
                /\ rmap' = Apply(oplog[h], rmap)
                /\ oplog'[h] = <<>>]_vars

\* a swap has published calls on both keys
C4_Witness ==
    /\ last.op = "swap"
    /\ \A k \in KeySet : LastCallOn(calls, k) # "none" /\ rmap[k].present

\* C5: on a fully materialized view, once the first swap has happened,
\* try_find_and answers on every key, and on a key without an entry it
\* answers with the empty bag: Ok((Some(f(&[])), meta)).
C5_FullViewNeverMisses ==
    \A h \in DOMAIN rh, k \in KeySet :
        (~rh[h].trigger /\ swapped) =>
            /\ try_find_and(h, k).tag = "Some"
            /\ try_find_and(h, k).meta = Meta
            /\ ~rmap[k].present => try_find_and(h, k).rs = <<>>

\* a full view after a swap with a key that has no entry, and one that has
C5_Witness ==
    /\ ~rh[0].trigger
    /\ swapped
    /\ \E k1 \in KeySet, k2 \in KeySet : ~rmap[k1].present /\ rmap[k2].present

\* C6: on a partial view, after the first swap, try_find_and on a key that
\* no add and no mark_filled has ever named returns Ok((None, meta)).
C6_PartialNeverFilledIsMiss ==
    \A h \in DOMAIN rh, k \in KeySet :
        (rh[h].trigger /\ swapped /\ k \notin written) => try_find_and(h, k) = OkNone(Meta)

\* a partial view after a swap where one key has been filled and another has
\* never been named
C6_Witness ==
    /\ rh[0].trigger
    /\ swapped
    /\ \E k1 \in KeySet, k2 \in KeySet :
          k1 \notin written /\ k2 \in written /\ rmap[k2].present

C8_MarkFilledThenSwap ==
    \A h \in DOMAIN rh, k \in KeySet :
        (rh[h].trigger /\ last.op = "swap" /\ LastCallOn(calls, k) = "mark_filled") =>
            try_find_and(h, k) = OkSome(<<>>, Meta)

\* a swap has published a mark_filled
C8_Witness ==
    /\ rh[0].trigger
    /\ last.op = "swap"
    /\ \E k \in KeySet : LastCallOn(calls, k) = "mark_filled"

C10_AccountingLaw ==
    panicked = "none" =>
        \A h \in DOMAIN wh : wh[h].mem_size = SumSizes(AllRecords(View(h), KeyOrder))

\* C11: mem_size never goes below zero: an add, a mark_hole or an
\* evict_random_key whose subtraction would make mem_size negative panics and
\* leaves mem_size as it was; otherwise mem_size changes by exactly the amount
\* the operation computed, neither wrapped nor clamped.
C11_UnderflowAborts ==
    [][\A h \in DOMAIN wh :
          LET mem == wh[h].mem_size IN
          /\ wh'[h].mem_size >= 0
          /\ last'.op = "add" =>
                \E rs \in Batches :
                    LET res == backend_add(rs, wh[h].uid, oplog[h], 0) IN
                    /\ oplog'[h] = res.log
                    /\ IF mem + res.delta < 0
                       THEN panicked' = "add: mem_size underflow" /\ wh'[h].mem_size = mem
                       ELSE panicked' = "none" /\ wh'[h].mem_size = mem + res.delta
          /\ last'.op = "mark_hole" =>
                LET size == SumSizes(Visible(rmap[last'.key].rs, wh[h].uid)) IN
                IF mem - size < 0
                THEN panicked' = "mark_hole: mem_size underflow" /\ wh'[h].mem_size = mem
                ELSE panicked' = "none" /\ wh'[h].mem_size = mem - size
          /\ (last'.op = "evict" /\ last'.key # NoKey) =>
                LET size == SumSizes(AllRecords(rmap, <<last'.key>>)) IN
                IF mem - size < 0
                THEN panicked' = "evict_random_key: mem_size underflow" /\ wh'[h].mem_size = mem
                ELSE panicked' = "none" /\ wh'[h].mem_size = mem - size]_vars

\* an add of a Negative that would take mem_size below zero has panicked
C11_Witness ==
    /\ panicked = "add: mem_size underflow"
    /\ \E i \in 1..Len(oplog[0]) : oplog[0][i].op = "remove"

\* the multiset with one occurrence of each record of set S
OneEach(S) == [r \in Records |-> IF r \in S THEN 1 ELSE 0]

\* C12: multi-user visibility: once every writer has swapped, the reader bound
\* to uid u gets on every key exactly the records added through the writers
\* bound to u, and none that only writers of other uids added.
C12_MultiUserVisibility ==
    (panicked = "none" /\ \A w \in DOMAIN oplog : oplog[w] = <<>>) =>
        \A h \in DOMAIN rh, k \in KeySet :
            LET res == try_find_and(h, k) IN
            IF res.tag = "Some" THEN BagOf(res.rs) = ExpectFor(rh[h].uid, k)
            ELSE ExpectFor(rh[h].uid, k) = NoRecords

\* every writer has swapped; one reader gets a once, and the reader of
\* another uid gets a and b
C12_Witness ==
    /\ \A w \in DOMAIN oplog : oplog[w] = <<>>
    /\ \E h1 \in DOMAIN rh, h2 \in DOMAIN rh :
          /\ rh[h1].uid # rh[h2].uid
          /\ try_find_and(h1, <<1>>).tag = "Some"
          /\ try_find_and(h2, <<1>>).tag = "Some"
          /\ BagOf(try_find_and(h1, <<1>>).rs) = OneEach({<<1, "a">>})
          /\ BagOf(try_find_and(h2, <<1>>).rs) = OneEach({<<1, "a">>, <<1, "b">>})

\* C13: clone_new_user is not retroactive: the reader of a cloned pair never
\* returns a record more often than it has been added through the writer of
\* that pair, whatever was added and published before the clone.
C13_CloneNotRetroactive ==
    \A h \in DOMAIN rh \ {0}, k \in KeySet :
        LET res == try_find_and(h, k) IN
        res.tag = "Some" =>
            \A r \in Records :
                BagOf(res.rs)[r] <= (IF key_from_record(KeyCols, r) = k THEN expect[h][r] ELSE 0)

\* a user has just been cloned of a table with a published record, and the
\* new reader gets the key of that record without the record
C13_Witness ==
    /\ last.op = "clone_new_user"
    /\ cloned = CloneSome(1, 1)
    /\ \E k \in KeySet :
          /\ rmap[k].present /\ rmap[k].rs # <<>>
          /\ try_find_and(1, k) = OkSome(<<>>, Meta)

CloneOps == {"clone_new_user", "clone_new_user_partial"}

C15_SingleUserCloneIsNone ==
    [][(last.op = "new" /\ ~last.srmap /\ last'.op \in CloneOps) =>
          /\ cloned' = CloneNone
          /\ panicked' = "none"
          /\ wh' = wh /\ rh' = rh]_vars

\* C16: the allocator honours its srmap argument: the pair that new /
\* new_partial return is backed by the multi-user map if and only if srmap
\* was true.
C16_AllocatorHonoursSrmap ==
    last.op = "new" => (wh[0].srmap = last.srmap /\ rh[0].srmap = last.srmap)

\* C17: in a table allocated with new_partial, a try_find_and that misses
\* (Ok((None, _)): the key is a hole) calls the replay trigger for that key.
C17_MissCallsTrigger ==
    [][\A h \in DOMAIN rh :
          (last'.op = "try_find_and" /\ rh[h].trigger
              /\ try_find_and(h, last'.key) = OkNone(Meta)) =>
              /\ Len(triggered') = Len(triggered) + 1
              /\ triggered'[Len(triggered')].key = last'.key]_vars

\* C18: SingleReadHandle::trigger on the reader of a fully materialized view
\* panics on its assertion and calls no callback; on the reader of a partial
\* view it calls the callback exactly once, with the key and the id given.
C18_TriggerOnlyOnPartial ==
    [][\A h \in DOMAIN rh :
          last'.op = "trigger" =>
              IF rh[h].trigger
              THEN /\ triggered' = Append(triggered, [key |-> last'.key, id |-> last'.id])
                   /\ panicked' = "none"
              ELSE /\ triggered' = triggered
                   /\ panicked' = "tried to trigger a replay for a fully materialized view"]_vars

\* the callback of a partial view has been called with a key and Some(uid)
C18_Witness ==
    /\ rh[0].trigger
    /\ last.op = "trigger"
    /\ triggered = <<[key |-> last.key, id |-> IdSome(rh[0].uid)]>>

\* C19: mark_filled on a key that is already Filled with a bag that is not
\* empty panics and neither clears nor otherwise changes the records of the
\* key, staged or published.
C19_MarkFilledOnFilledAborts ==
    [][\A h \in DOMAIN wh, k \in KeySet :
          (last' = Call("mark_filled", k) /\ ready /\ rmap[k].present
              /\ Visible(rmap[k].rs, wh[h].uid) # <<>>) =>
              /\ panicked' = "attempted to fill already-filled key"
              /\ oplog' = oplog /\ rmap' = rmap /\ wh' = wh]_vars

\* mark_filled has panicked on a key that holds records
C19_Witness ==
    /\ panicked = "attempted to fill already-filled key"
    /\ rmap[last.key].present
    /\ rmap[last.key].rs # <<>>

\* C20 as stated: mark_filled(key) is accepted, and leaves the key Filled and
\* empty, in both pre-states: the probe meta_get_and(key, is_empty) returns
\* Some((None, _)), or it returns Some((empty, _)), the key having an entry
\* with an empty bag.
C20_MarkFilledAcceptsEmpty ==
    [][\A h \in DOMAIN wh, k \in KeySet :
          (last' = Call("mark_filled", k) /\ ready
              /\ (~rmap[k].present \/ Visible(rmap[k].rs, wh[h].uid) = <<>>)) =>
              /\ panicked' = "none"
              /\ View(h)'[k] = Entry(<<>>)]_vars

\* C20 (amended): mark_filled(key) is accepted, and leaves the key Filled and
\* empty, exactly when the probe returns Some((None, _)), the key having no
\* entry on the published side; in every other pre-state, an entry with an
\* empty bag included, it panics and stages nothing.
C20_MarkFilledAcceptsAbsentOnly ==
    [][\A h \in DOMAIN wh, k \in KeySet :
          last' = Call("mark_filled", k) =>
              IF ready /\ ~rmap[k].present
              THEN /\ panicked' = "none"
                   /\ View(h)'[k] = Entry(<<>>)
              ELSE /\ panicked' = "attempted to fill already-filled key"
                   /\ oplog' = oplog]_vars

\* mark_filled has panicked on a key whose entry holds no record
C20_Witness ==
    /\ panicked = "attempted to fill already-filled key"
    /\ rmap[last.key].present
    /\ rmap[last.key].rs = <<>>

\* C21: evict_random_key on a handle whose mem_size is positive takes exactly
\* one key out, returns the summed deep_size_of of the records of that key,
\* and lowers mem_size by what it returns; on a handle whose mem_size is 0 it
\* returns 0 and changes neither the map nor mem_size
C21_EvictFreesOneKey ==
    [][\A h \in DOMAIN wh :
          last'.op = "evict" =>
              IF wh[h].mem_size > 0
              THEN /\ panicked' = "none"
                   /\ last'.key \in KeySet
                   /\ oplog'[h] = Append(oplog[h], OpEmpty(last'.key))
                   /\ LET vs == rmap[last'.key].rs IN
                      last'.ret = Returned(SumSizes([i \in 1..Len(vs) |-> vs[i].rec]))
                   /\ \E v \in 0..MaxMem :
                         last'.ret = Returned(v) /\ wh'[h].mem_size = wh[h].mem_size - v
              ELSE /\ last'.ret = Returned(0)
                   /\ UNCHANGED <<rmap, oplog, wh>>]_vars

\* C22: mem_size > 0 implies that the backing map reports non-empty, so
\* evict_random_key never takes the branch "mem size is {}, but map is empty"
C22_MapNonEmptyWhenCharged ==
    /\ panicked # "mem size is positive, but map is empty"
    /\ \A h \in DOMAIN wh : wh[h].mem_size > 0 => ~is_empty

\* C23: set_single_handle installs a handle into an empty slot only: called
\* on a slot that already holds a handle, of a Singleton or of a Sharded
\* ReadHandle, it fails its assertion and the handle installed before stays
C23_InstallOnlyIntoEmptySlot ==
    [][(/\ last'.op = "set_single_handle"
        /\ panicked = "none"
        /\ TargetSlot(router, last'.shard) # 0
        /\ router.slots[TargetSlot(router, last'.shard)] # IdNone)
          => (panicked' # "none" /\ router' = router)]_vars

\* C24: ReadHandle::try_find_and returns, on a Sharded handle whose N shards
\* are all installed, what try_find_and of the shard shard_by(key[0], N)
\* returns, and on a Singleton what try_find_and of the wrapped handle returns
C24_RouterDelegates ==
    (/\ last.op = "ReadHandle::try_find_and"
     /\ \A i \in 1..Len(router.slots) : router.slots[i] # IdNone)
        => LET slot == IF router.shape = "Singleton" THEN router.slots[1]
                       ELSE router.slots[shard_by(last.key[1], Len(router.slots)) + 1]
           IN last.ret = Returned(try_find_and(slot[1], last.key))

\* C25: in the busy test, under fair scheduling of the two threads, the reader
\* eventually gets Ok((Some(1), _)) for every key and terminates
C25_BusyReaderTerminates == <>(pc.reader = "done" /\ pc.j = BusyN + 1)

\* the reader has left its loops, having seen Ok((Some(1), _)) for the last key
C25_Witness ==
    /\ pc.reader = "done"
    /\ pc.j = BusyN + 1
    /\ pc.res = OkSome(<<BusyRecords[BusyN]>>, Meta)

\* C26: in the busy test, no read of any key returns Ok((Some(k), _)) with k > 1
C26_BusyAtMostOne ==
    /\ pc.res.tag = "Some" => Len(pc.res.rs) <= 1
    /\ \A h \in DOMAIN rh, k \in KeySet :
           try_find_and(h, k).tag = "Some" => Len(try_find_and(h, k).rs) <= 1

\* the reader holds Ok((Some(1), _)) for the first key while the writer has
\* staged the record of a later key and not swapped it yet
C26_Witness ==
    /\ pc.j = 1
    /\ pc.reader = "match"
    /\ pc.res = OkSome(<<BusyRecords[1]>>, Meta)
    /\ pc.i > 1
    /\ pc.writer = "swap"

\* C27: readiness is monotone: once the writer has made its first swap, and
\* as long as the writer is alive, no try_find_and on any read handle returns
\* Err(()); Err(()) is returned before the first swap only
C27_ReadyOnceSwapped ==
    (swapped /\ panicked = "none") =>
        /\ ready
        /\ \A h \in DOMAIN rh, k \in KeySet : try_find_and(h, k) # Err

\* the first swap had nothing to publish, the writer has gone on to stage an
\* operation, and the readers get an answer for every key
C27_Witness ==
    /\ swapped
    /\ panicked = "none"
    /\ \A k \in KeySet : ~rmap[k].present
    /\ last.op = "add"
    /\ oplog[0] # <<>>
    /\ \A k \in KeySet : try_find_and(0, k) # Err

\* the occurrences of record r, added through write handle h, in a bag
CountOf(rs, h, r) ==
    Cardinality({i \in 1..Len(rs) : rs[i] = [rec |-> r, uid |-> wh[h].uid]})

\* C28: within one writer the deltas are applied in the order they were
\* issued, within a batch and across add calls: what the writer has staged on
\* top of the published map, and what a swap then publishes, holds of every
\* record the occurrences the deltas leave when folded in that order (none of
\* a after Positive(a), Negative(a))
C28_IssueOrder ==
    (only_adds /\ panicked = "none") =>
        \A h \in DOMAIN wh, r \in Records :
            /\ CountOf(View(h)[key_from_record(KeyCols, r)].rs, h, r) = expect[h][r]
            /\ last.op = "swap" =>
                  CountOf(rmap[key_from_record(KeyCols, r)].rs, h, r) = expect[h][r]

\* a swap has published one round that added a record and took it away
\* again: the key has an entry, and the entry is empty
C28_Witness ==
    /\ only_adds
    /\ last.op = "swap"
    /\ \E k \in KeySet :
          /\ calls = <<Call("add", k)>>
          /\ written = {k}
          /\ rmap[k] = Entry(<<>>)
    /\ wh[0].mem_size = 0

\* C29: the published snapshot changes at a swap only: mark_filled, mark_hole
\* and evict_random_key change the result of no reader's try_find_and, len or
\* count_rows; what they stage shows after the next swap
C29_StagedCallsInvisible ==
    [][last'.op \in {"mark_filled", "mark_hole", "evict"} =>
          \A h \in DOMAIN rh :
              /\ \A k \in KeySet : try_find_and(h, k)' = try_find_and(h, k)
              /\ len(h)' = len(h)
              /\ count_rows(h)' = count_rows(h)]_vars

\* evict_random_key has taken a key whose records the reader still gets
C29_Witness ==
    /\ last.op = "evict"
    /\ panicked = "none"
    /\ last.key \in KeySet
    /\ oplog[0] # <<>>
    /\ try_find_and(0, last.key).tag = "Some"
    /\ try_find_and(0, last.key).rs # <<>>
    /\ count_rows(0) > 0
    /\ len(0) > 0

\* C30: miss and fill on a partial view: once mark_filled(k) and a swap have
\* made k Filled, adding n Positive records with key k and swapping makes
\* try_find_and(k, len) return Ok((Some(n), _))
C30_FillThenAdd ==
    \A h \in DOMAIN rh, k \in KeySet :
        (rh[h].trigger /\ fill[k] # NotFilled) =>
            /\ try_find_and(h, k).tag = "Some"
            /\ Len(try_find_and(h, k).rs) = fill[k]

\* a mark_filled of a key was published by one swap, and the swap made last
\* has published two Positive records of that key
C30_Witness ==
    /\ rh[0].trigger
    /\ last.op = "swap"
    /\ \E k \in KeySet :
          /\ fill[k] = 2
          /\ calls = <<Call("add", k), Call("add", k)>>
          /\ Len(try_find_and(0, k).rs) = 2

\* C31: on a partial view, once evict_random_key has taken key k and the
\* writer has swapped, try_find_and(k, _) returns Ok((None, _)): the evicted
\* key reads as a hole, never as Filled and empty
C31_EvictedKeyIsHole ==
    \A h \in DOMAIN rh, k \in KeySet :
        (rh[h].trigger /\ last.op = "swap" /\ LastCallOn(calls, k) = "evict") =>
            try_find_and(h, k) = OkNone(Meta)

\* on a partial view a swap has published the eviction of the only key ever
\* written, which held all the bytes the writer counted
C31_Witness ==
    /\ rh[0].trigger
    /\ last.op = "swap"
    /\ wh[0].mem_size = 0
    /\ \E k \in KeySet :
          /\ calls = <<Call("evict", k)>>
          /\ written = {k}
          /\ try_find_and(0, k) = OkNone(Meta)

\* C40: on a fully materialized view, once evict_random_key has taken a key k
\* that held records and the writer has swapped, try_find_and(k, len) returns
\* Ok((Some(0), _)), as for a key without matching rows: neither Ok((None, _))
\* nor Err(())
C40_EvictedKeyReadsEmpty ==
    \A h \in DOMAIN rh, k \in KeySet :
        (~rh[h].trigger /\ last.op = "swap" /\ LastCallOn(calls, k) = "evict") =>
            try_find_and(h, k) = OkSome(<<>>, Meta)

\* on a full view a swap has published the eviction of the only key ever
\* written, which held all the bytes the writer counted
C40_Witness ==
    /\ ~rh[0].trigger
    /\ last.op = "swap"
    /\ wh[0].mem_size = 0
    /\ \E k \in KeySet :
          /\ calls = <<Call("evict", k)>>
          /\ written = {k}
          /\ ~rmap[k].present
          /\ try_find_and(0, k) = OkSome(<<>>, Meta)

\* C32: mark_hole on a key that has never been seen leaves mem_size as it is
\* and does not abort, before the first swap and after it
C32_MarkHoleOnUnseenKey ==
    [][\A h \in DOMAIN wh, k \in KeySet :
          (last' = Call("mark_hole", k) /\ k \notin written /\ ~rmap[k].present) =>
              /\ panicked' = "none"
              /\ wh'[h].mem_size = wh[h].mem_size]_vars

\* mark_hole has been called on a key never written, before the first swap,
\* by a writer that counts the bytes of another key
C32_Witness ==
    /\ ~swapped
    /\ panicked = "none"
    /\ wh[0].mem_size > 0
    /\ \E k \in KeySet :
          /\ last = Call("mark_hole", k)
          /\ k \notin written
          /\ ~rmap[k].present

\* the same after the first swap
C32_WitnessSwapped ==
    /\ swapped
    /\ panicked = "none"
    /\ wh[0].mem_size > 0
    /\ \E k \in KeySet :
          /\ last = Call("mark_hole", k)
          /\ k \notin written
          /\ ~rmap[k].present

\* C33: key_from_record yields the same key on its three paths: for every
\* record and every list of key columns the allocator takes, the owned path,
\* the borrowed contiguous path and the borrowed point-select path return
\* [record[k] for k in key_cols], in the order of key_cols and of its length
C33_KeyPathsAgree ==
    extracted.called =>
        extracted.out = [i \in 1..Len(extracted.key) |->
                            extracted.record[extracted.key[i] + 1]]

\* how often reader h gets record r under key k
ReadCount(h, k, r) ==
    IF try_find_and(h, k).tag = "Some" THEN BagOf(try_find_and(h, k).rs)[r] ELSE 0

\* how often the writers bound to uid u have staged, and not yet swapped, the
\* addition of record r
StagedBy(u, r) ==
    Cardinality({p \in (DOMAIN oplog) \X (1..MaxShared) :
                    /\ wh[p[1]].uid = u
                    /\ p[2] <= Len(oplog[p[1]])
                    /\ oplog[p[1]][p[2]] = OpAdd(r, u)})

C36_MarkHoleCountsStaged ==
    \A h \in DOMAIN wh, k \in KeySet :
        (/\ panicked = "none"
         /\ last.op = "swap"
         /\ Len(calls) >= 2
         /\ calls[Len(calls)] = Call("mark_hole", k)
         /\ \E i \in 1..(Len(calls) - 1) : calls[i] = Call("add", k)) =>
            wh[h].mem_size =
                SumSizes(AllRecords(rmap, SelectSeq(KeyOrder, LAMBDA j : j # k)))

\* C37: in every pair of a reader and a writer that new, new_partial, clone,
\* clone_new_user or clone_new_user_partial returned, the writer is partial
\* exactly when the reader has a trigger
C37_PartialIffTrigger ==
    \A h \in DOMAIN wh : is_partial(h) <=> rh[h].trigger

\* C38: the writer that clone, clone_new_user or clone_new_user_partial mints
\* starts with the mem_size its parent has at that moment, and a call on one
\* writer leaves the mem_size of every other writer as it was
C38_CloneCopiesMemSize ==
    [][\A w \in DOMAIN wh' :
          /\ w \notin DOMAIN wh => wh'[w].mem_size = wh[actor'].mem_size
          /\ (w \in DOMAIN wh /\ w # actor') => wh'[w].mem_size = wh[w].mem_size]_vars

\* a writer minted from a parent that held one record, which has since given
\* its account up with a mark_hole while the parent keeps its own
C38_Witness ==
    /\ cloned.called /\ cloned.some
    /\ last.op = "mark_hole"
    /\ actor = 1
    /\ wh[0].mem_size = 1
    /\ wh[1].mem_size = 0
    /\ panicked = "none"

\* how often the map holds record r tagged with uid u, published or staged by
\* any write handle
Tagged(u, r) ==
    Len(SelectSeq(rmap[key_from_record(KeyCols, r)].rs,
                  LAMBDA e : e = [rec |-> r, uid |-> u]))
        + Cardinality({p \in (DOMAIN oplog) \X (1..MaxShared) :
                          /\ p[2] <= Len(oplog[p[1]])
                          /\ oplog[p[1]][p[2]] = OpAdd(r, u)})

\* C39: the id argument of add has no effect: whatever id the calls were
\* given, the map holds under each uid the records that the write handles of
\* that uid added, and every record a write handle has staged carries the uid
\* of that handle
C39_IdArgumentIgnored ==
    /\ \A u \in 0..MaxHandles, r \in Records :
          Tagged(u, r) = ExpectOfUid(u, r, Cardinality(DOMAIN wh))
    /\ \A w \in DOMAIN wh : \A i \in 1..Len(oplog[w]) : oplog[w][i].uid = wh[w].uid

\* the writer of user 0 was given Some(1), the uid of another user, with its
\* add: the record is staged under uid 0
C39_Witness ==
    /\ DOMAIN wh = {0, 1}
    /\ wh[0].uid = 0 /\ wh[1].uid = 1
    /\ last.op = "add"
    /\ given = IdSome(1)
    /\ oplog[0] = <<OpAdd(<<1, "a">>, 0)>>
    /\ Tagged(1, <<1, "a">>) = 0

====
